---- MODULE Spec2Model ----
(***************************************************************************)
(* Multi-tenant dairy ledger (src/app.py): the session gate, the product  *)
(* and event handlers that maintain Product.current_stock, and the report *)
(* queries.  One action per request handler; a handler's database work is *)
(* one transaction that is committed by its single db.session.commit() or *)
(* discarded when an exception leaves the handler before that line.       *)
(*                                                                         *)
(* Quantities and prices are Decimal values of scale 2 in the code; the   *)
(* model keeps them as integers (hundredths).  Form fields are strings,   *)
(* converted by Decimal(...) and strptime(...) as the code converts them. *)
(***************************************************************************)
EXTENDS Integers, FiniteSets, Sequences, TLC

VARIABLES
    session,    \* [admin, dairy_id]: flask-login's current_user and session['dairy_id'] (0: absent)
    dairies,    \* ids of the rows of table dairies
    products,   \* table products:  id -> [dairy_id, cost_price, sell_price, current_stock]
    stock_in,   \* table stock_in:  id -> [dairy_id, product_id, qty, cost_price, date]
    sales,      \* table sales:     id -> [dairy_id, product_id, qty, selling_price, date]
    last,       \* the last request: [op, status, id, old]
    view,       \* what the last report request returned: rows, totals and page
    excel,      \* the file static/reports/report_v3.xlsx: [exists, rows]
    req         \* per worker, a request that is being handled (concurrent requests)

vars == <<session, dairies, products, stock_in, sales, last, view, excel, req>>

----------------------------------------------------------------------------
(* Bounds of the model *)

\* Most rows the tables stock_in and sales hold together.
MaxEvents == 2

\* Most events of the ledgers the row set of a report is checked on.
MaxRowEvents == 3

\* Most stock-in events of the ledgers the pages of a report are checked on.
MaxPageRows == 21

\* Most rows of table products.
MaxProducts == 2

\* Most rows of table dairies.
MaxDairies == 2

DairyIds == 1..MaxDairies
ProductIds == 1..MaxProducts
EventIds == 1..MaxEvents

----------------------------------------------------------------------------
(* Form fields and their conversions *)

\* Decimal(s): the numerals the requests of the model submit.
DecimalValue == ("-1" :> -1) @@ ("1" :> 1) @@ ("2" :> 2) @@ ("3" :> 3)

\* Decimal(request.form[k] or 0): the empty string is falsy and gives Decimal(0);
\* any other string is handed to Decimal, which raises on a non-numeral.
DecimalOk(s) == s = "" \/ s \in DOMAIN DecimalValue

Decimal(s) == IF s = "" THEN 0 ELSE DecimalValue[s]

\* datetime.strptime(s, '%Y-%m-%d').date(): days as integers.
DateValue == ("2026-11-01" :> 1) @@ ("2026-11-02" :> 2)

TodayStr == "2026-11-02"

Today == DateValue[TodayStr]

\* request.form.get('date') or date.today().isoformat(), then strptime.
CreateDateOk(s) == s = "" \/ s \in DOMAIN DateValue

CreateDate(s) == IF s = "" THEN Today ELSE DateValue[s]

\* strptime(request.form.get('date'), ...) of the edit forms: no default.
EditDateOk(s) == s \in DOMAIN DateValue

EditDate(s) == DateValue[s]

----------------------------------------------------------------------------
(* Tables *)

Max(S) == CHOOSE x \in S : \A y \in S : y <= x

\* SQLite's INTEGER PRIMARY KEY without AUTOINCREMENT: one more than the
\* largest id in the table.
NewId(t) == IF DOMAIN t = {} THEN 1 ELSE Max(DOMAIN t) + 1

Insert(t, id, row) == [i \in DOMAIN t \cup {id} |-> IF i = id THEN row ELSE t[i]]

Delete(t, id) == [i \in DOMAIN t \ {id} |-> t[i]]

Update(t, id, row) == [t EXCEPT ![id] = row]

DB == [products |-> products, stock_in |-> stock_in, sales |-> sales]

NoRow == [i \in {} |-> 0]

\* No report has been requested.
NoView == [rows |-> <<>>]

\* The export has not been written.
NoFile == [exists |-> FALSE, rows |-> <<>>]

\* The workers that handle requests, and none of them handling one.
Workers == {1, 2}

Idle == [pc |-> "idle"]

NoRequests == [w \in Workers |-> Idle]

RECURSIVE SumQty(_, _)
SumQty(t, ids) ==
    IF ids = {} THEN 0
    ELSE LET i == CHOOSE x \in ids : TRUE IN t[i].qty + SumQty(t, ids \ {i})

\* The sum of qty over the rows of t that refer to product p.
QtyOf(t, p) == SumQty(t, {i \in DOMAIN t : t[i].product_id = p})

----------------------------------------------------------------------------
(* The session gate *)

\* current_dairy(): the acting tenant's id, 0 for None.
current_dairy ==
    IF session.dairy_id # 0 /\ session.dairy_id \in dairies
    THEN session.dairy_id
    ELSE 0

\* What a login form can submit: the admin's credentials, a dairy's, or
\* credentials that match no row.
Credentials ==
    {[who |-> "admin", id |-> 0], [who |-> "nobody", id |-> 0]}
        \cup {[who |-> "dairy", id |-> d] : d \in DairyIds}

Reply(op, status, id, old) == [op |-> op, status |-> status, id |-> id, old |-> old]

\* POST /login
login(c) ==
    /\ session' =
          IF c.who = "admin" THEN [admin |-> TRUE, dairy_id |-> 0]
          ELSE IF c.who = "dairy" /\ c.id \in dairies
               THEN [session EXCEPT !.dairy_id = c.id]
               ELSE session
    /\ last' = Reply("login",
                     IF c.who = "admin" \/ (c.who = "dairy" /\ c.id \in dairies)
                     THEN "ok" ELSE "invalid", 0, 0)
    /\ UNCHANGED <<dairies, products, stock_in, sales, view, excel, req>>

\* GET /logout
logout ==
    /\ session' = [admin |-> FALSE, dairy_id |-> 0]
    /\ last' = Reply("logout", "ok", 0, 0)
    /\ UNCHANGED <<dairies, products, stock_in, sales, view, excel, req>>

----------------------------------------------------------------------------
(* Transactions.  A handler's result is the database it leaves and the    *)
(* status of its response.                                                 *)

\* An exception leaves the handler before db.session.commit(): the session
\* is discarded with everything added or changed in it (pending).
\* Mutation of Rollback: what the failed handler had changed is kept.
Rollback_KeepsPending(db, pending) == pending

Rollback(db, pending) == db

Committed(db) == [db |-> db, status |-> "ok"]

Failed(db, pending) == [db |-> Rollback(db, pending), status |-> "error"]

Refused(db, status) == [db |-> db, status |-> status]

\* Mutation of Owns: no ownership check.
Owns_Anyone(row, d) == TRUE

\* The ownership check of the edit and delete handlers.
Owns(row, d) == row.dairy_id = d

\* The balance arithmetic of the five event handlers.
StockAfterStockIn(cur, qty) == cur + qty

\* Mutation of StockAfterStockInEdit: the old quantity is not taken back.
StockAfterStockInEdit_KeepsOld(cur, old_qty, qty) == cur + qty

StockAfterStockInEdit(cur, old_qty, qty) == cur - old_qty + qty

\* Mutation of StockAfterSale: a sale larger than the stock is not booked.
StockAfterSale_Checked(cur, qty) == IF qty > cur THEN cur ELSE cur - qty

StockAfterSale(cur, qty) == cur - qty

\* Mutation of StockAfterSaleEdit: the signs of the stock-in edit.
StockAfterSaleEdit_AsStockIn(cur, old_qty, qty) == cur - old_qty + qty

StockAfterSaleEdit(cur, old_qty, qty) == cur + old_qty - qty

\* Mutation of StockAfterSaleDelete: the quantity is not given back.
StockAfterSaleDelete_Kept(cur, qty) == cur

StockAfterSaleDelete(cur, qty) == cur + qty

\* Mutation of ProductAfterStockInEdit: the last-cost policy of the create.
ProductAfterStockInEdit_LastCost(prod, old_qty, qty, cost_price) ==
    [prod EXCEPT !.current_stock = StockAfterStockInEdit(@, old_qty, qty),
                 !.cost_price = cost_price]

\* The product row after edit_stock_in: current_stock is the one column
\* the handler assigns.
ProductAfterStockInEdit(prod, old_qty, qty, cost_price) ==
    [prod EXCEPT !.current_stock = StockAfterStockInEdit(@, old_qty, qty)]

\* The reference prices a create writes to the product.
\* Mutation of CostAfterStockIn: the product keeps its cost.
CostAfterStockIn_Kept(cur_cost, cost_price) == cur_cost

CostAfterStockIn(cur_cost, cost_price) == cost_price

SellAfterSale(cur_sell, selling_price) == selling_price

\* stock_in_page, POST, acting tenant d; f is the submitted form.
stock_in_post(db, d, pid, f) ==
    IF ~(DecimalOk(f.qty) /\ DecimalOk(f.cost_price) /\ CreateDateOk(f.date))
    THEN Failed(db, db)
    ELSE
      LET qty == Decimal(f.qty)
          cost_price == Decimal(f.cost_price)
          st == [dairy_id |-> d, product_id |-> pid, qty |-> qty,
                 cost_price |-> cost_price, date |-> CreateDate(f.date)]
          added == [db EXCEPT !.stock_in = Insert(@, NewId(@), st)]
      IN IF pid \notin DOMAIN db.products
         THEN Failed(db, added)
         ELSE LET prod == db.products[pid]
              IN Committed([added EXCEPT !.products = Update(@, pid,
                    [prod EXCEPT
                       !.current_stock = StockAfterStockIn(@, qty),
                       !.cost_price = CostAfterStockIn(@, cost_price)])])

\* edit_stock_in, POST, acting tenant d.
edit_stock_in_post(db, d, sid, f) ==
    IF sid \notin DOMAIN db.stock_in THEN Refused(db, "notfound")
    ELSE IF ~Owns(db.stock_in[sid], d) THEN Refused(db, "forbidden")
    ELSE IF ~DecimalOk(f.qty) THEN Failed(db, db)
    ELSE
      LET st == db.stock_in[sid]
          old_qty == st.qty
          qty == Decimal(f.qty)
          requantified == [db EXCEPT !.stock_in[sid].qty = qty]
      IN IF ~DecimalOk(f.cost_price) THEN Failed(db, requantified)
         ELSE
           LET priced == [requantified EXCEPT
                             !.stock_in[sid].cost_price = Decimal(f.cost_price)]
           IN IF ~EditDateOk(f.date) THEN Failed(db, priced)
              ELSE
                LET changed == [priced EXCEPT !.stock_in[sid].date = EditDate(f.date)]
                IN IF st.product_id \notin DOMAIN db.products
                   THEN Failed(db, changed)
                   ELSE Committed([changed EXCEPT
                            !.products[st.product_id] =
                                ProductAfterStockInEdit(@, old_qty, qty,
                                                        Decimal(f.cost_price))])

\* sales_page, POST, acting tenant d.
sales_post(db, d, pid, f) ==
    IF ~(DecimalOk(f.qty) /\ DecimalOk(f.selling_price) /\ CreateDateOk(f.date))
    THEN Failed(db, db)
    ELSE
      LET qty == Decimal(f.qty)
          selling_price == Decimal(f.selling_price)
          sale == [dairy_id |-> d, product_id |-> pid, qty |-> qty,
                   selling_price |-> selling_price, date |-> CreateDate(f.date)]
          added == [db EXCEPT !.sales = Insert(@, NewId(@), sale)]
      IN IF pid \notin DOMAIN db.products
         THEN Failed(db, added)
         ELSE LET prod == db.products[pid]
              IN Committed([added EXCEPT !.products = Update(@, pid,
                    [prod EXCEPT
                       !.current_stock = StockAfterSale(@, qty),
                       !.sell_price = SellAfterSale(@, selling_price)])])

\* Mutation of edit_sale_post: the edit sets the product's sell_price, as the
\* creation of a sale does.
edit_sale_post_SetsSellPrice(db, d, sid, f) ==
    IF sid \notin DOMAIN db.sales THEN Refused(db, "notfound")
    ELSE IF ~Owns(db.sales[sid], d) THEN Refused(db, "forbidden")
    ELSE IF ~DecimalOk(f.qty) THEN Failed(db, db)
    ELSE
      LET sale == db.sales[sid]
          old_qty == sale.qty
          qty == Decimal(f.qty)
          requantified == [db EXCEPT !.sales[sid].qty = qty]
      IN IF ~DecimalOk(f.selling_price) THEN Failed(db, requantified)
         ELSE
           LET priced == [requantified EXCEPT
                             !.sales[sid].selling_price = Decimal(f.selling_price)]
           IN IF ~EditDateOk(f.date) THEN Failed(db, priced)
              ELSE
                LET changed == [priced EXCEPT !.sales[sid].date = EditDate(f.date)]
                IN IF sale.product_id \notin DOMAIN db.products
                   THEN Failed(db, changed)
                   ELSE Committed([changed EXCEPT
                            !.products[sale.product_id].current_stock =
                                StockAfterSaleEdit(@, old_qty, qty),
                            !.products[sale.product_id].sell_price =
                                Decimal(f.selling_price)])

\* edit_sale, POST, acting tenant d.
edit_sale_post(db, d, sid, f) ==
    IF sid \notin DOMAIN db.sales THEN Refused(db, "notfound")
    ELSE IF ~Owns(db.sales[sid], d) THEN Refused(db, "forbidden")
    ELSE IF ~DecimalOk(f.qty) THEN Failed(db, db)
    ELSE
      LET sale == db.sales[sid]
          old_qty == sale.qty
          qty == Decimal(f.qty)
          requantified == [db EXCEPT !.sales[sid].qty = qty]
      IN IF ~DecimalOk(f.selling_price) THEN Failed(db, requantified)
         ELSE
           LET priced == [requantified EXCEPT
                             !.sales[sid].selling_price = Decimal(f.selling_price)]
           IN IF ~EditDateOk(f.date) THEN Failed(db, priced)
              ELSE
                LET changed == [priced EXCEPT !.sales[sid].date = EditDate(f.date)]
                IN IF sale.product_id \notin DOMAIN db.products
                   THEN Failed(db, changed)
                   ELSE Committed([changed EXCEPT
                            !.products[sale.product_id].current_stock =
                                StockAfterSaleEdit(@, old_qty, qty)])

\* add_product, POST, acting tenant d: current_stock takes the column default 0.
add_product_post(db, d, f) ==
    IF ~(DecimalOk(f.cost_price) /\ DecimalOk(f.sell_price)) THEN Failed(db, db)
    ELSE Committed([db EXCEPT !.products = Insert(@, NewId(@),
            [dairy_id |-> d, cost_price |-> Decimal(f.cost_price),
             sell_price |-> Decimal(f.sell_price), current_stock |-> 0])])

\* edit_product, POST, acting tenant d.
edit_product_post(db, d, pid, f) ==
    IF pid \notin DOMAIN db.products THEN Refused(db, "notfound")
    ELSE IF ~Owns(db.products[pid], d) THEN Refused(db, "forbidden")
    ELSE IF ~(DecimalOk(f.cost_price) /\ DecimalOk(f.sell_price)) THEN Failed(db, db)
    ELSE Committed([db EXCEPT !.products = Update(@, pid,
            [db.products[pid] EXCEPT !.cost_price = Decimal(f.cost_price),
                                     !.sell_price = Decimal(f.sell_price)])])

\* delete_product, POST, acting tenant d: the product's row alone is deleted
\* (no relationship cascades from Product to StockIn or Sale).
delete_product_post(db, d, pid) ==
    IF pid \notin DOMAIN db.products THEN Refused(db, "notfound")
    ELSE IF ~Owns(db.products[pid], d) THEN Refused(db, "forbidden")
    ELSE Committed([db EXCEPT !.products = Delete(@, pid)])

\* delete_sale, POST, acting tenant d.
delete_sale_post(db, d, sid) ==
    IF sid \notin DOMAIN db.sales THEN Refused(db, "notfound")
    ELSE IF ~Owns(db.sales[sid], d) THEN Refused(db, "forbidden")
    ELSE
      LET sale == db.sales[sid]
          adjusted ==
            IF sale.product_id \in DOMAIN db.products
            THEN [db EXCEPT !.products[sale.product_id].current_stock =
                                StockAfterSaleDelete(@, sale.qty)]
            ELSE db
      IN Committed([adjusted EXCEPT !.sales = Delete(@, sid)])

----------------------------------------------------------------------------
(* Request handlers as actions *)

\* id: the row the request names or creates; old: the quantity an edited or
\* deleted event had.  Both are recorded for a request that commits.
Respond(op, r, id, old) ==
    /\ products' = r.db.products
    /\ stock_in' = r.db.stock_in
    /\ sales' = r.db.sales
    /\ last' = Reply(op, r.status, IF r.status = "ok" THEN id ELSE 0,
                     IF r.status = "ok" THEN old ELSE 0)

\* "if not d: return redirect(url_for('login'))"
ToLogin(op) == Respond(op, Refused(DB, "login"), 0, 0)

\* The tables stock_in and sales hold at most MaxEvents rows together, with
\* ids in EventIds.
HasRoom(t) ==
    /\ NewId(t) \in EventIds
    /\ Cardinality(DOMAIN stock_in) + Cardinality(DOMAIN sales) < MaxEvents

\* POST /stock_in
stock_in_page(pid, f) ==
    /\ HasRoom(stock_in)
    /\ IF current_dairy = 0 THEN ToLogin("stock_in_page")
       ELSE Respond("stock_in_page", stock_in_post(DB, current_dairy, pid, f),
                    NewId(stock_in), 0)
    /\ UNCHANGED <<session, dairies, view, excel, req>>

\* POST /stock_in/edit/<sid>
edit_stock_in(sid, f) ==
    /\ IF current_dairy = 0 THEN ToLogin("edit_stock_in")
       ELSE Respond("edit_stock_in", edit_stock_in_post(DB, current_dairy, sid, f),
                    sid, IF sid \in DOMAIN stock_in THEN stock_in[sid].qty ELSE 0)
    /\ UNCHANGED <<session, dairies, view, excel, req>>

\* POST /sales
sales_page(pid, f) ==
    /\ HasRoom(sales)
    /\ IF current_dairy = 0 THEN ToLogin("sales_page")
       ELSE Respond("sales_page", sales_post(DB, current_dairy, pid, f),
                    NewId(sales), 0)
    /\ UNCHANGED <<session, dairies, view, excel, req>>

\* POST /sales/edit/<sid>
edit_sale(sid, f) ==
    /\ IF current_dairy = 0 THEN ToLogin("edit_sale")
       ELSE Respond("edit_sale", edit_sale_post(DB, current_dairy, sid, f),
                    sid, IF sid \in DOMAIN sales THEN sales[sid].qty ELSE 0)
    /\ UNCHANGED <<session, dairies, view, excel, req>>

\* POST /sales/delete/<sid>
delete_sale(sid) ==
    /\ IF current_dairy = 0 THEN ToLogin("delete_sale")
       ELSE Respond("delete_sale", delete_sale_post(DB, current_dairy, sid),
                    sid, IF sid \in DOMAIN sales THEN sales[sid].qty ELSE 0)
    /\ UNCHANGED <<session, dairies, view, excel, req>>

\* POST /products/add
add_product(f) ==
    /\ NewId(products) \in ProductIds
    /\ IF current_dairy = 0 THEN ToLogin("add_product")
       ELSE Respond("add_product", add_product_post(DB, current_dairy, f),
                    NewId(products), 0)
    /\ UNCHANGED <<session, dairies, view, excel, req>>

\* POST /products/edit/<pid>
edit_product(pid, f) ==
    /\ IF current_dairy = 0 THEN ToLogin("edit_product")
       ELSE Respond("edit_product", edit_product_post(DB, current_dairy, pid, f), pid, 0)
    /\ UNCHANGED <<session, dairies, view, excel, req>>

\* POST /products/delete/<pid>
delete_product(pid) ==
    /\ IF current_dairy = 0 THEN ToLogin("delete_product")
       ELSE Respond("delete_product", delete_product_post(DB, current_dairy, pid), pid, 0)
    /\ UNCHANGED <<session, dairies, view, excel, req>>

----------------------------------------------------------------------------
(* Forms the requests of the model submit *)

StockInForm(q, c, dt) == [qty |-> q, cost_price |-> c, date |-> dt]

SaleForm(q, c, dt) == [qty |-> q, selling_price |-> c, date |-> dt]

ProductForm(c, s) == [cost_price |-> c, sell_price |-> s]

BadDate == "2026-13-45"

Quantities == {"-1", "1", "2"}

\* Create forms: every quantity at one price, one form with a quantity that
\* is no numeral and one with a date that is no date.
StockInCreateForms ==
    {StockInForm(q, "2", "") : q \in Quantities}
        \cup {StockInForm("abc", "2", ""), StockInForm("1", "2", BadDate)}

SaleCreateForms ==
    {SaleForm(q, "3", "") : q \in Quantities}
        \cup {SaleForm("abc", "3", ""), SaleForm("1", "3", BadDate)}

\* Edit forms: the price differs from the create forms' price.
StockInEditForms ==
    {StockInForm(q, "1", TodayStr) : q \in Quantities}
        \cup {StockInForm("abc", "1", TodayStr), StockInForm("1", "1", BadDate)}

SaleEditForms ==
    {SaleForm(q, "2", TodayStr) : q \in Quantities}
        \cup {SaleForm("abc", "2", TodayStr), SaleForm("1", "2", BadDate)}

----------------------------------------------------------------------------
(* Spec: the stock ledger.  Two tenants with one product each; tenant 1   *)
(* (or nobody) is logged in and submits the event forms with any product  *)
(* id, its own, the other tenant's or one that names no product.          *)

Anonymous == [admin |-> FALSE, dairy_id |-> 0]

NewProduct(d, cost_price, sell_price) ==
    [dairy_id |-> d, cost_price |-> cost_price, sell_price |-> sell_price,
     current_stock |-> 0]

LedgerCredentials == {[who |-> "dairy", id |-> 1], [who |-> "nobody", id |-> 0]}

LedgerProductIds == {1, 2, 3}

Init ==
    /\ session = Anonymous
    /\ dairies = {1, 2}
    /\ products = (1 :> NewProduct(1, 1, 2)) @@ (2 :> NewProduct(2, 1, 2))
    /\ stock_in = NoRow
    /\ sales = NoRow
    /\ last = Reply("none", "ok", 0, 0)
    /\ view = NoView
    /\ excel = NoFile
    /\ req = NoRequests

Login == \E c \in LedgerCredentials : login(c)

Logout == logout

StockInCreate == \E pid \in LedgerProductIds, f \in StockInCreateForms : stock_in_page(pid, f)

StockInEdit == \E sid \in EventIds, f \in StockInEditForms : edit_stock_in(sid, f)

SaleCreate == \E pid \in LedgerProductIds, f \in SaleCreateForms : sales_page(pid, f)

SaleEdit == \E sid \in EventIds, f \in SaleEditForms : edit_sale(sid, f)

SaleDelete == \E sid \in EventIds : delete_sale(sid)

Next ==
    \/ Login
    \/ Logout
    \/ StockInCreate
    \/ StockInEdit
    \/ SaleCreate
    \/ SaleEdit
    \/ SaleDelete

Spec == Init /\ [][Next]_vars

----------------------------------------------------------------------------
(* SpecAccess: ownership.  Two tenants with one product each; both log in *)
(* and edit and delete products and create, edit and delete events,       *)
(* naming any product or event id, their own or the other tenant's.       *)

AccessCredentials == {[who |-> "dairy", id |-> 1], [who |-> "dairy", id |-> 2]}

AccessProductIds == {1, 2}

ProductEditForms == {ProductForm("1", "3")}

AccessStockInCreateForms == {StockInForm("1", "2", "")}

AccessStockInEditForms == {StockInForm("2", "2", TodayStr)}

AccessSaleCreateForms == {SaleForm("1", "3", "")}

AccessSaleEditForms == {SaleForm("2", "3", TodayStr)}

InitAccess ==
    /\ session = Anonymous
    /\ dairies = {1, 2}
    /\ products = (1 :> NewProduct(1, 2, 3)) @@ (2 :> NewProduct(2, 2, 3))
    /\ stock_in = NoRow
    /\ sales = NoRow
    /\ last = Reply("none", "ok", 0, 0)
    /\ view = NoView
    /\ excel = NoFile
    /\ req = NoRequests

AccessLogin == \E c \in AccessCredentials : login(c)

ProductEdit == \E pid \in AccessProductIds, f \in ProductEditForms : edit_product(pid, f)

ProductDelete == \E pid \in AccessProductIds : delete_product(pid)

AccessStockInCreate ==
    \E pid \in AccessProductIds, f \in AccessStockInCreateForms : stock_in_page(pid, f)

AccessStockInEdit ==
    \E sid \in EventIds, f \in AccessStockInEditForms : edit_stock_in(sid, f)

AccessSaleCreate ==
    \E pid \in AccessProductIds, f \in AccessSaleCreateForms : sales_page(pid, f)

AccessSaleEdit == \E sid \in EventIds, f \in AccessSaleEditForms : edit_sale(sid, f)

NextAccess ==
    \/ AccessLogin
    \/ Logout
    \/ ProductEdit
    \/ ProductDelete
    \/ AccessStockInCreate
    \/ AccessStockInEdit
    \/ AccessSaleCreate
    \/ AccessSaleEdit
    \/ SaleDelete

SpecAccess == InitAccess /\ [][NextAccess]_vars

----------------------------------------------------------------------------
(* Reports *)

\* int(s) for the strings str.isdigit() accepts among those the requests of
\* the model submit.
IntValue == ("1" :> 1) @@ ("2" :> 2) @@ ("3" :> 3)

IsDigit(s) == s \in DOMAIN IntValue

\* str(n) of a tenant id.
IntStr == (1 :> "1") @@ (2 :> "2") @@ (3 :> "3")

\* No filter on a column; None for a date.
None == 0

\* The ids of S in ascending order (the order the rows were inserted in).
RECURSIVE IdSeq(_)
IdSeq(S) == IF S = {} THEN <<>> ELSE LET m == Max(S) IN Append(IdSeq(S \ {m}), m)

\* Mutation of SortByDateDesc: the rows stay in construction order.
SortByDateDesc_Unsorted(rows) == rows

\* sorted(rows, key=date, reverse=True): stable, rows of one date keep their order.
RECURSIVE SortByDateDesc(_)
SortByDateDesc(rows) ==
    IF rows = <<>> THEN <<>>
    ELSE LET m == Max({rows[i].date : i \in 1..Len(rows)})
         IN SelectSeq(rows, LAMBDA r : r.date = m)
                \o SortByDateDesc(SelectSeq(rows, LAMBDA r : r.date # m))

\* Mutation of Filtered: the to-date is not applied.
Filtered_OpenEnd(t, flt) ==
    {i \in DOMAIN t :
        /\ flt.did # None => t[i].dairy_id = flt.did
        /\ flt.f1d # None => t[i].date >= flt.f1d
        /\ flt.pid # None => t[i].product_id = flt.pid}

\* query.filter(...): the rows of table t that pass the filters flt that are set.
Filtered(t, flt) ==
    {i \in DOMAIN t :
        /\ flt.did # None => t[i].dairy_id = flt.did
        /\ flt.f1d # None => t[i].date >= flt.f1d
        /\ flt.f2d # None => t[i].date <= flt.f2d
        /\ flt.pid # None => t[i].product_id = flt.pid}

\* query.order_by(date.desc()).all() of reports_pdf.
OrderedByDateDesc(t, ids) ==
    LET inserted == IdSeq(ids)
        dated == SortByDateDesc([k \in 1..Len(inserted) |->
                                    [id |-> inserted[k], date |-> t[inserted[k]].date]])
    IN [k \in 1..Len(dated) |-> dated[k].id]

\* The row of a stock-in event; sell_price '' is the empty tuple.
StockInRow(db, e) ==
    [dairy |-> e.dairy_id, date |-> e.date, product |-> e.product_id,
     in_qty |-> e.qty, out_qty |-> 0, cost_price |-> e.cost_price,
     sell_price |-> <<>>, profit |-> 0]

\* Mutation of SaleRow: the profit is the whole price.
SaleRow_NoCost(db, s) ==
    [dairy |-> s.dairy_id, date |-> s.date, product |-> s.product_id,
     in_qty |-> 0, out_qty |-> s.qty, cost_price |-> db.products[s.product_id].cost_price,
     sell_price |-> <<s.selling_price>>,
     profit |-> s.qty * s.selling_price]

\* The row of a sale: cost and profit from the product's cost_price as it is now.
SaleRow(db, s) ==
    LET cost == db.products[s.product_id].cost_price
    IN [dairy |-> s.dairy_id, date |-> s.date, product |-> s.product_id,
        in_qty |-> 0, out_qty |-> s.qty, cost_price |-> cost,
        sell_price |-> <<s.selling_price>>,
        profit |-> s.qty * (s.selling_price - cost)]

\* The two loops that build rows and the final sort; entry.product.name raises
\* for an event whose product row is gone.
BuildRows(db, sis, ss) ==
    IF \/ \E k \in 1..Len(sis) : db.stock_in[sis[k]].product_id \notin DOMAIN db.products
       \/ \E j \in 1..Len(ss) : db.sales[ss[j]].product_id \notin DOMAIN db.products
    THEN [status |-> "error", rows |-> <<>>]
    ELSE [status |-> "ok",
          rows |-> SortByDateDesc(
                      [k \in 1..Len(sis) |-> StockInRow(db, db.stock_in[sis[k]])]
                        \o [k \in 1..Len(ss) |-> SaleRow(db, db.sales[ss[k]])])]

\* The request carries no page parameter.
NoPage == "(none)"

ReportForm(from_s, to_s, product_s, dairy_s, page_s) ==
    [from |-> from_s, to |-> to_s, product |-> product_s, dairy |-> dairy_s,
     page |-> page_s]

\* The filters of reports: the dates default to today, and both are dropped
\* when either does not parse; the tenant defaults to the acting tenant d and
\* is dropped when it is not a number.
reports_filter(f, d) ==
    LET f1 == IF f.from # "" THEN f.from ELSE TodayStr
        f2 == IF f.to # "" THEN f.to ELSE TodayStr
        parsed == f1 \in DOMAIN DateValue /\ f2 \in DOMAIN DateValue
    IN [did |-> IF f.dairy # ""
                THEN (IF IsDigit(f.dairy) THEN IntValue[f.dairy] ELSE None)
                ELSE d,
        f1d |-> IF parsed THEN DateValue[f1] ELSE None,
        f2d |-> IF parsed THEN DateValue[f2] ELSE None,
        pid |-> IF f.product # "" /\ IsDigit(f.product) THEN IntValue[f.product] ELSE None]

\* Mutation of reports_pdf_filter: the product parameter is not read.
reports_pdf_filter_NoProduct(f) ==
    LET ok1 == f.from = "" \/ f.from \in DOMAIN DateValue
        ok2 == f.to = "" \/ f.to \in DOMAIN DateValue
    IN [did |-> IF f.dairy # "" /\ IsDigit(f.dairy) THEN IntValue[f.dairy] ELSE None,
        f1d |-> IF f.from # "" /\ ok1 THEN DateValue[f.from] ELSE None,
        f2d |-> IF f.to # "" /\ ok1 /\ ok2 THEN DateValue[f.to] ELSE None,
        pid |-> None]

\* The filters of reports_pdf: no default for a date or for the tenant; the
\* try block stops at the first date that does not parse and keeps the
\* filters set before it.
reports_pdf_filter(f) ==
    LET ok1 == f.from = "" \/ f.from \in DOMAIN DateValue
        ok2 == f.to = "" \/ f.to \in DOMAIN DateValue
    IN [did |-> IF f.dairy # "" /\ IsDigit(f.dairy) THEN IntValue[f.dairy] ELSE None,
        f1d |-> IF f.from # "" /\ ok1 THEN DateValue[f.from] ELSE None,
        f2d |-> IF f.to # "" /\ ok1 /\ ok2 THEN DateValue[f.to] ELSE None,
        pid |-> IF f.product # "" /\ IsDigit(f.product) THEN IntValue[f.product] ELSE None]

reports_rows(db, f, d) ==
    LET flt == reports_filter(f, d)
    IN BuildRows(db, IdSeq(Filtered(db.stock_in, flt)), IdSeq(Filtered(db.sales, flt)))

reports_pdf_rows(db, f) ==
    LET flt == reports_pdf_filter(f)
    IN BuildRows(db, OrderedByDateDesc(db.stock_in, Filtered(db.stock_in, flt)),
                     OrderedByDateDesc(db.sales, Filtered(db.sales, flt)))

\* The totals the two row loops accumulate, from the events themselves.
RECURSIVE SeqSum(_)
SeqSum(q) == IF q = <<>> THEN 0 ELSE Head(q) + SeqSum(Tail(q))

\* Mutation of Totals: the profit is the sell value.
Totals_ProfitIsRevenue(db, sis, ss) ==
    [in_qty |-> SeqSum([k \in 1..Len(sis) |-> db.stock_in[sis[k]].qty]),
     out_qty |-> SeqSum([k \in 1..Len(ss) |-> db.sales[ss[k]].qty]),
     cost_val |-> SeqSum([k \in 1..Len(sis) |->
                            db.stock_in[sis[k]].qty * db.stock_in[sis[k]].cost_price]),
     sell_val |-> SeqSum([k \in 1..Len(ss) |->
                            db.sales[ss[k]].qty * db.sales[ss[k]].selling_price]),
     profit |-> SeqSum([k \in 1..Len(ss) |->
                            db.sales[ss[k]].qty * db.sales[ss[k]].selling_price])]

Totals(db, sis, ss) ==
    [in_qty |-> SeqSum([k \in 1..Len(sis) |-> db.stock_in[sis[k]].qty]),
     out_qty |-> SeqSum([k \in 1..Len(ss) |-> db.sales[ss[k]].qty]),
     cost_val |-> SeqSum([k \in 1..Len(sis) |->
                            db.stock_in[sis[k]].qty * db.stock_in[sis[k]].cost_price]),
     sell_val |-> SeqSum([k \in 1..Len(ss) |->
                            db.sales[ss[k]].qty * db.sales[ss[k]].selling_price]),
     profit |-> SeqSum([k \in 1..Len(ss) |-> SaleRow(db, db.sales[ss[k]]).profit])]

reports_totals(db, f, d) ==
    LET flt == reports_filter(f, d)
    IN Totals(db, IdSeq(Filtered(db.stock_in, flt)), IdSeq(Filtered(db.sales, flt)))

reports_pdf_totals(db, f) ==
    LET flt == reports_pdf_filter(f)
    IN Totals(db, OrderedByDateDesc(db.stock_in, Filtered(db.stock_in, flt)),
                  OrderedByDateDesc(db.sales, Filtered(db.sales, flt)))

\* int(request.args.get('page', 1)) for the page parameters the requests of
\* the model submit.
PageValue ==
    ("-2" :> -2) @@ ("-1" :> -1) @@ ("0" :> 0) @@ ("1" :> 1) @@ ("2" :> 2)
        @@ ("3" :> 3) @@ ("4" :> 4)

PageOk(s) == s = NoPage \/ s \in DOMAIN PageValue

Page(s) == IF s = NoPage THEN 1 ELSE PageValue[s]

per_page == 10

\* Mutation of TotalPages: the quotient is rounded down.
TotalPages_Floor(n) == IF n # 0 THEN n \div per_page ELSE 1

\* ceil(len(rows) / per_page) if rows else 1
TotalPages(n) == IF n # 0 THEN (n + per_page - 1) \div per_page ELSE 1

\* A slice bound of Python: a negative bound counts from the end, and a
\* bound beyond either end is the end.
SliceBound(i, n) ==
    IF i < 0 THEN (IF n + i < 0 THEN 0 ELSE n + i)
    ELSE IF i > n THEN n ELSE i

\* rows[start:end]
Slice(rows, start, end) ==
    LET lo == SliceBound(start, Len(rows))
        hi == SliceBound(end, Len(rows))
    IN IF lo < hi THEN SubSeq(rows, lo + 1, hi) ELSE <<>>

\* start = (page - 1) * per_page; end = start + per_page; rows[start:end]
paginated_rows(rows, page) ==
    Slice(rows, (page - 1) * per_page, (page - 1) * per_page + per_page)

\* What render_template is given: the page of rows, the totals, the page
\* numbers and the filters as submitted; rows is the full sorted list the
\* handler built.
ReportsView(f, d, rows, totals) ==
    [rows |-> rows,
     totals |-> totals,
     page |-> Page(f.page),
     total_pages |-> TotalPages(Len(rows)),
     paginated_rows |-> paginated_rows(rows, Page(f.page)),
     out |-> rows # <<>>,
     f1 |-> IF f.from # "" THEN f.from ELSE TodayStr,
     f2 |-> IF f.to # "" THEN f.to ELSE TodayStr,
     pid |-> f.product,
     did |-> IF f.dairy # "" THEN f.dairy ELSE IF d # None THEN IntStr[d] ELSE ""]

\* Mutation of Exported: a file that exists is kept.
Exported_Once(file, rows) ==
    IF rows # <<>> /\ ~file.exists THEN [exists |-> TRUE, rows |-> rows] ELSE file

\* "if rows: ... df.to_excel(excel_path, index=False)"
Exported(file, rows) ==
    IF rows # <<>> THEN [exists |-> TRUE, rows |-> rows] ELSE file

Shown(op, r, totals) ==
    /\ \E shown \in {r} :
          /\ view' = IF shown.status = "ok"
                      THEN [rows |-> shown.rows, totals |-> totals]
                      ELSE NoView
          /\ last' = Reply(op, shown.status, 0, 0)
    /\ UNCHANGED <<session, dairies, products, stock_in, sales, excel, req>>

\* GET or POST /reports: no redirect to login when there is no acting tenant.
\* A page that is no integer fails the request before the export is written.
reports(f) ==
    \E r \in {reports_rows(DB, f, current_dairy)} :
        LET ok == r.status = "ok" /\ PageOk(f.page)
        IN /\ view' = IF ok
                      THEN ReportsView(f, current_dairy, r.rows,
                                       reports_totals(DB, f, current_dairy))
                      ELSE NoView
           /\ excel' = IF ok THEN Exported(excel, r.rows) ELSE excel
           /\ last' = Reply("reports", IF ok THEN "ok" ELSE "error", 0, 0)
           /\ UNCHANGED <<session, dairies, products, stock_in, sales, req>>

\* GET /reports/pdf: neither the session nor current_user is looked at.
reports_pdf(f) ==
    Shown("reports_pdf", reports_pdf_rows(DB, f), reports_pdf_totals(DB, f))

\* Mutation of admin_view_dairy: taking the tenant's identity ends the admin's.
admin_view_dairy_DropsAdmin(did) ==
    /\ session' = IF session.admin /\ did \in dairies
                  THEN [admin |-> FALSE, dairy_id |-> did]
                  ELSE session
    /\ last' = Reply("admin_view_dairy",
                     IF ~session.admin THEN "login"
                     ELSE IF did \notin dairies THEN "notfound" ELSE "ok", 0, 0)
    /\ UNCHANGED <<dairies, products, stock_in, sales, view, excel, req>>

\* GET /admin/dairies/<did>/view, behind @login_required.
admin_view_dairy(did) ==
    /\ session' = IF session.admin /\ did \in dairies
                  THEN [session EXCEPT !.dairy_id = did]
                  ELSE session
    /\ last' = Reply("admin_view_dairy",
                     IF ~session.admin THEN "login"
                     ELSE IF did \notin dairies THEN "notfound" ELSE "ok", 0, 0)
    /\ UNCHANGED <<dairies, products, stock_in, sales, view, excel, req>>

----------------------------------------------------------------------------
(* SpecReport: report requests on a ledger that does not change.  The     *)
(* ledger is any of those two tenants reach with at most MaxEvents events *)
(* on their own products, receipts of 2 units and sales of 1; anybody, a  *)
(* tenant or the admin asks for reports.                                   *)

ReportEvents == [product_id : {1, 2}, date : {1, 2}]

ReportEventSeqs == UNION {[1..k -> ReportEvents] : k \in 0..MaxEvents}

ReportStockIn(es) ==
    [i \in 1..Len(es) |->
        [dairy_id |-> es[i].product_id, product_id |-> es[i].product_id,
         qty |-> 2, cost_price |-> 2, date |-> es[i].date]]

ReportSales(es) ==
    [i \in 1..Len(es) |->
        [dairy_id |-> es[i].product_id, product_id |-> es[i].product_id,
         qty |-> 1, selling_price |-> 3, date |-> es[i].date]]

\* The products after those events: product p belongs to tenant p.
ReportProducts(si, sa) ==
    [p \in {1, 2} |->
        [dairy_id |-> p,
         cost_price |-> IF \E i \in DOMAIN si : si[i].product_id = p THEN 2 ELSE 1,
         sell_price |-> IF \E i \in DOMAIN sa : sa[i].product_id = p THEN 3 ELSE 2,
         current_stock |-> QtyOf(si, p) - QtyOf(sa, p)]]

ReportForms ==
    {ReportForm(a, "", "", d, NoPage) :
        a \in {"", "2026-11-01"}, d \in {"", "1", "2", "abc"}}

InitReport ==
    /\ session = Anonymous
    /\ dairies = {1, 2}
    /\ \E ins \in ReportEventSeqs, outs \in ReportEventSeqs :
          /\ Len(ins) + Len(outs) <= MaxEvents
          /\ stock_in = ReportStockIn(ins)
          /\ sales = ReportSales(outs)
          /\ products = ReportProducts(ReportStockIn(ins), ReportSales(outs))
    /\ last = Reply("none", "ok", 0, 0)
    /\ view = NoView
    /\ excel = NoFile
    /\ req = NoRequests

AnyLogin == \E c \in Credentials : login(c)

Impersonate == \E did \in DairyIds : admin_view_dairy(did)

ReportView == \E f \in ReportForms : reports(f)

ReportPdf == \E f \in ReportForms : reports_pdf(f)

NextReport ==
    \/ AnyLogin
    \/ Logout
    \/ Impersonate
    \/ ReportView
    \/ ReportPdf

SpecReport == InitReport /\ [][NextReport]_vars

----------------------------------------------------------------------------
(* SpecRows: tenant 1 asks for reports with every combination of date,    *)
(* product and tenant filters on a ledger of at most MaxRowEvents events.  *)

\* From and to: today alone, the day before alone, no date that parses.
ReportDates == {<<"", "">>, <<"2026-11-01", "2026-11-01">>, <<BadDate, "">>}

RowsForms ==
    {ReportForm(dt[1], dt[2], p, d, NoPage) :
        dt \in ReportDates, p \in {"", "1"}, d \in {"", "2", "abc"}}

RowsEventSeqs == UNION {[1..k -> ReportEvents] : k \in 0..MaxRowEvents}

InitRows ==
    /\ session = [admin |-> FALSE, dairy_id |-> 1]
    /\ dairies = {1, 2}
    /\ \E ins \in RowsEventSeqs, outs \in RowsEventSeqs :
          /\ Len(ins) + Len(outs) <= MaxRowEvents
          /\ stock_in = ReportStockIn(ins)
          /\ sales = ReportSales(outs)
          /\ products = ReportProducts(ReportStockIn(ins), ReportSales(outs))
    /\ last = Reply("none", "ok", 0, 0)
    /\ view = NoView
    /\ excel = NoFile
    /\ req = NoRequests

RowsView == \E f \in RowsForms : reports(f)

NextRows == RowsView

SpecRows == InitRows /\ [][NextRows]_vars

----------------------------------------------------------------------------
(* SpecProfit: tenant 1 records stock-ins and sales, edits product prices *)
(* and asks for the report of today in between.                            *)

ProfitForms == {ReportForm("", "", p, "", NoPage) : p \in {"", "1"}}

ProfitView == \E f \in ProfitForms : reports(f)

NextProfit ==
    \/ Login
    \/ AccessStockInCreate
    \/ AccessSaleCreate
    \/ ProductEdit
    \/ ProfitView

SpecProfit == Init /\ [][NextProfit]_vars

----------------------------------------------------------------------------
(* SpecPage: tenant 1 asks for the pages of its reports.  Its ledger holds *)
(* up to MaxPageRows stock-ins of today, each of another quantity, and     *)
(* possibly a sale of the day before.                                      *)

PageStockIn(n) ==
    [i \in 1..n |-> [dairy_id |-> 1, product_id |-> 1, qty |-> i, cost_price |-> 2,
                     date |-> Today]]

PageSales(m) ==
    [i \in 1..m |-> [dairy_id |-> 1, product_id |-> 1, qty |-> 1, selling_price |-> 3,
                     date |-> DateValue["2026-11-01"]]]

\* From and to: today alone, both days, the day before alone.
PageDates == {<<"", "">>, <<"2026-11-01", "">>, <<"2026-11-01", "2026-11-01">>}

PageParameters == {NoPage, "abc"} \cup DOMAIN PageValue

PageForms ==
    {ReportForm(dt[1], dt[2], "", "", pg) : dt \in PageDates, pg \in PageParameters}

InitPage ==
    /\ session = [admin |-> FALSE, dairy_id |-> 1]
    /\ dairies = {1, 2}
    /\ \E n \in 0..MaxPageRows, m \in {0, 1} :
          /\ stock_in = PageStockIn(n)
          /\ sales = PageSales(m)
          /\ products = ReportProducts(PageStockIn(n), PageSales(m))
    /\ last = Reply("none", "ok", 0, 0)
    /\ view = NoView
    /\ excel = NoFile
    /\ req = NoRequests

PageView == \E f \in PageForms : reports(f)

NextPage == PageView

SpecPage == InitPage /\ [][NextPage]_vars

----------------------------------------------------------------------------
(* SpecConc: two workers handle create requests of one tenant at the same  *)
(* time.  A request is two steps: the handler loads the tenant's products  *)
(* into its session, and later computes from what its session holds,      *)
(* flushes and commits.  The store serialises the flush-and-commit of one  *)
(* request against the other's; nothing orders the loads.                  *)

\* Product.query.filter_by(dairy_id=d['id']).all(): the rows the session of
\* the request holds from then on.
Loaded(db, d) ==
    [p \in {q \in DOMAIN db.products : db.products[q].dairy_id = d} |-> db.products[p]]

\* What the request sees: Product.query.get(pid) returns the object its
\* session already holds, and reads the store only for a product it does not.
Seen(db, held) ==
    [db EXCEPT !.products =
        [p \in DOMAIN db.products |-> IF p \in DOMAIN held THEN held[p] ELSE db.products[p]]]

\* db.session.commit(): the pending rows are inserted, and for each product
\* the columns the handler changed are written with the values it computed.
Flush(db, seen, after) ==
    [products |->
        [p \in DOMAIN db.products |->
            [col \in DOMAIN db.products[p] |->
                IF after.products[p][col] # seen.products[p][col]
                THEN after.products[p][col]
                ELSE db.products[p][col]]],
     stock_in |-> after.stock_in,
     sales |-> after.sales]

Handled(db, seen, r) == [db |-> Flush(db, seen, r.db), status |-> r.status]

\* A request in flight after its load.
Request(op, d, pid, f, held) ==
    [pc |-> "loaded", op |-> op, d |-> d, pid |-> pid, f |-> f, products |-> held]

InFlight == {w \in Workers : req[w].pc # "idle"}

\* Room for the event of one more request.
HasRoomInFlight ==
    Cardinality(DOMAIN stock_in) + Cardinality(DOMAIN sales) + Cardinality(InFlight)
        < MaxEvents

\* The first step of a create handler on worker w.
Load(w, op, pid, f) ==
    /\ req[w].pc = "idle"
    /\ HasRoomInFlight
    /\ IF current_dairy = 0
       THEN ToLogin(op) /\ UNCHANGED req
       ELSE /\ req' = [req EXCEPT
                          ![w] = Request(op, current_dairy, pid, f, Loaded(DB, current_dairy))]
            /\ UNCHANGED <<products, stock_in, sales, last>>
    /\ UNCHANGED <<session, dairies, view, excel>>

\* POST /stock_in on worker w, up to the query for the tenant's products.
stock_in_page_load(w, pid, f) == Load(w, "stock_in_page", pid, f)

\* POST /stock_in on worker w, from the form to the commit.
stock_in_page_commit(w) ==
    /\ req[w].pc = "loaded"
    /\ req[w].op = "stock_in_page"
    /\ LET r == req[w]
           seen == Seen(DB, r.products)
       IN Respond("stock_in_page", Handled(DB, seen, stock_in_post(seen, r.d, r.pid, r.f)),
                  NewId(stock_in), 0)
    /\ req' = [req EXCEPT ![w] = Idle]
    /\ UNCHANGED <<session, dairies, view, excel>>

\* POST /sales on worker w, up to the query for the tenant's products.
sales_page_load(w, pid, f) == Load(w, "sales_page", pid, f)

\* POST /sales on worker w, from the form to the commit.
sales_page_commit(w) ==
    /\ req[w].pc = "loaded"
    /\ req[w].op = "sales_page"
    /\ LET r == req[w]
           seen == Seen(DB, r.products)
       IN Respond("sales_page", Handled(DB, seen, sales_post(seen, r.d, r.pid, r.f)),
                  NewId(sales), 0)
    /\ req' = [req EXCEPT ![w] = Idle]
    /\ UNCHANGED <<session, dairies, view, excel>>

ConcStockInForms == {StockInForm(q, "2", "") : q \in {"1", "2"}} \cup {StockInForm("abc", "2", "")}

ConcSaleForms == {SaleForm("1", "3", "")}

ConcProductIds == {1, 2}

StockInLoad == \E w \in Workers, pid \in ConcProductIds, f \in ConcStockInForms :
                   stock_in_page_load(w, pid, f)

StockInCommit == \E w \in Workers : stock_in_page_commit(w)

SaleLoad == \E w \in Workers, pid \in ConcProductIds, f \in ConcSaleForms :
                sales_page_load(w, pid, f)

SaleCommit == \E w \in Workers : sales_page_commit(w)

NextConc ==
    \/ Login
    \/ Logout
    \/ StockInLoad
    \/ StockInCommit
    \/ SaleLoad
    \/ SaleCommit

SpecConc == Init /\ [][NextConc]_vars

----------------------------------------------------------------------------
(* Properties of the stock ledger (Spec) *)

\* Stock-in quantities minus sale quantities of product p in the tables si, sa.
Net(si, sa, p) == QtyOf(si, p) - QtyOf(sa, p)

Committing(op) == last'.op = op /\ last'.status = "ok"

\* t2 is t with the one row id added.
AddsRow(t, t2, id) ==
    /\ id \notin DOMAIN t
    /\ DOMAIN t2 = DOMAIN t \cup {id}
    /\ \A i \in DOMAIN t : t2[i] = t[i]

\* C1: after any sequence of create stock-in, edit stock-in, create sale,
\* edit sale and delete sale requests, every product's current_stock is the
\* sum of its stock-in quantities minus the sum of its sale quantities.
C1_StockIsNetOfEvents ==
    \A p \in DOMAIN products :
        products[p].current_stock = Net(stock_in, sales, p)

C1_Witness ==
    /\ last.status = "ok"
    /\ last.op \in {"edit_stock_in", "edit_sale", "delete_sale"}
    /\ \E p \in DOMAIN products :
          /\ \E i \in DOMAIN stock_in : stock_in[i].product_id = p
          /\ \E i \in DOMAIN sales : sales[i].product_id = p
          /\ products[p].current_stock # 0

\* C2: no request changes a product owned by a tenant other than the acting
\* tenant; a cross-tenant create is refused with an authorization error.
C2_TenantIsolation ==
    [][\A p \in DOMAIN products :
          products[p].dairy_id # current_dairy
              => p \in DOMAIN products' /\ products'[p] = products[p]]_vars

\* C5: no step saves an event quantity without the matching change of
\* current_stock, or changes current_stock without its event, also when the
\* request fails on an unknown product id, a quantity that is no numeral or a
\* date that is no date.
C5_EventAndBalanceTogether ==
    [][\A p \in DOMAIN products \cap DOMAIN products' :
          products'[p].current_stock - products[p].current_stock
              = Net(stock_in', sales', p) - Net(stock_in, sales, p)]_vars

C5_Witness ==
    /\ last.status = "error"
    /\ last.op \in {"stock_in_page", "edit_stock_in", "sales_page", "edit_sale"}
    /\ stock_in # NoRow
    /\ sales # NoRow

\* C7: an edit of a stock-in quantity from q1 to q2 changes the product's
\* current_stock by q2 - q1, an edit of a sale quantity by q1 - q2; stock 70
\* after a sale of 30 becomes 80 when the sale is edited to 20.
C7_EditMovesStockByDifference ==
    [][/\ Committing("edit_stock_in") =>
            LET sid == last'.id
                p == stock_in[sid].product_id
            IN products'[p].current_stock - products[p].current_stock
                  = stock_in'[sid].qty - stock_in[sid].qty
       /\ Committing("edit_sale") =>
            LET sid == last'.id
                p == sales[sid].product_id
            IN products'[p].current_stock - products[p].current_stock
                  = sales[sid].qty - sales'[sid].qty
       /\ StockAfterSaleEdit(70, 30, 20) = 80]_vars

C7_Witness ==
    /\ last.op = "edit_sale"
    /\ last.status = "ok"
    /\ last.old # sales[last.id].qty
    /\ products[sales[last.id].product_id].current_stock # 0

\* C8: a create with a negative quantity persists no event: every event a
\* step adds has a quantity of at least 0.
C8_CreateRejectsNegative ==
    [][/\ \A i \in DOMAIN stock_in' \ DOMAIN stock_in : stock_in'[i].qty >= 0
       /\ \A i \in DOMAIN sales' \ DOMAIN sales : sales'[i].qty >= 0]_vars

\* C9: a create stock-in adds exactly one stock-in event, raises the
\* product's current_stock by the event's quantity and sets its cost_price to
\* the event's cost; nothing else in the ledger changes a cost_price.
C9_StockInCreate ==
    [][/\ Committing("stock_in_page") =>
            LET id == last'.id
                st == stock_in'[id]
                p == st.product_id
            IN /\ AddsRow(stock_in, stock_in', id)
               /\ sales' = sales
               /\ products'[p].current_stock = products[p].current_stock + st.qty
               /\ products'[p].cost_price = st.cost_price
       /\ \A p \in DOMAIN products \cap DOMAIN products' :
            products'[p].cost_price # products[p].cost_price
                => last'.op \in {"stock_in_page", "edit_product"}]_vars

C9_Witness ==
    /\ last.op = "stock_in_page"
    /\ last.status = "ok"
    /\ stock_in[last.id].qty > 0
    /\ products[stock_in[last.id].product_id].current_stock > 0
    /\ products[stock_in[last.id].product_id].cost_price = 2

\* C10: a create sale adds exactly one sale event, lowers the product's
\* current_stock by the event's quantity whatever the stock is (a valid form
\* for an existing product is never refused), and sets its sell_price to the
\* event's price.
C10_SaleCreate ==
    [][/\ Committing("sales_page") =>
            LET id == last'.id
                sale == sales'[id]
                p == sale.product_id
            IN /\ AddsRow(sales, sales', id)
               /\ stock_in' = stock_in
               /\ products'[p].current_stock = products[p].current_stock - sale.qty
               /\ products'[p].sell_price = sale.selling_price
       /\ (last'.op = "sales_page" /\ current_dairy # 0) =>
            \A p \in DOMAIN products, q \in Quantities :
                LET r == sales_post(DB, current_dairy, p, SaleForm(q, "3", ""))
                IN /\ r.status = "ok"
                   /\ r.db.products[p].current_stock
                        = products[p].current_stock - Decimal(q)]_vars

C10_Witness ==
    /\ last.op = "sales_page"
    /\ last.status = "ok"
    /\ sales[last.id].qty > 0
    /\ products[sales[last.id].product_id].current_stock < 0
    /\ products[sales[last.id].product_id].sell_price = 3

\* t2 is t without the one row id.
RemovesRow(t, t2, id) ==
    /\ id \in DOMAIN t
    /\ DOMAIN t2 = DOMAIN t \ {id}
    /\ \A i \in DOMAIN t2 : t2[i] = t[i]

\* The database after the step.
DBNext == [products |-> products', stock_in |-> stock_in', sales |-> sales']

\* C11: a delete sale by the owning tenant removes exactly that sale event
\* and raises its product's current_stock by the event's quantity; deleting
\* a sale right after it was created gives back the sales table and the
\* current_stock from before the create.
C11_SaleDelete ==
    [][/\ Committing("delete_sale") =>
            LET sid == last'.id
                p == sales[sid].product_id
            IN /\ sales[sid].dairy_id = current_dairy
               /\ RemovesRow(sales, sales', sid)
               /\ stock_in' = stock_in
               /\ products' = [products EXCEPT
                                  ![p].current_stock = @ + sales[sid].qty]
       /\ Committing("sales_page") =>
            LET sid == last'.id
                p == sales'[sid].product_id
                r == delete_sale_post(DBNext, current_dairy, sid)
            IN /\ r.status = "ok"
               /\ r.db.sales = sales
               /\ r.db.products[p].current_stock = products[p].current_stock]_vars

C11_Witness ==
    /\ last.op = "delete_sale"
    /\ last.status = "ok"
    /\ last.old > 0
    /\ sales # NoRow
    /\ \E p \in DOMAIN products : products[p].current_stock < 0

\* C12: an edit of a stock-in leaves the cost_price of the event's product
\* as it was, whatever cost the edit supplies: the new cost is stored in the
\* event alone.
C12_StockInEditKeepsProductCost ==
    [][Committing("edit_stock_in") =>
            LET sid == last'.id
                p == stock_in[sid].product_id
            IN /\ products'[p].cost_price = products[p].cost_price
               /\ \E f \in StockInEditForms :
                     /\ DecimalOk(f.cost_price)
                     /\ stock_in'[sid].cost_price = Decimal(f.cost_price)
               /\ stock_in'[sid].product_id = p
               /\ sales' = sales]_vars

C12_Witness ==
    /\ last.op = "edit_stock_in"
    /\ last.status = "ok"
    /\ stock_in[last.id].cost_price # products[stock_in[last.id].product_id].cost_price
    /\ \E f \in StockInCreateForms :
          /\ DecimalOk(f.cost_price)
          /\ products[stock_in[last.id].product_id].cost_price = Decimal(f.cost_price)

\* C13: a date that is no valid YYYY-MM-DD never fails a request: a create
\* stock-in or create sale that submits one, with a valid quantity and
\* price for an existing product, commits an event dated today.
C13_MalformedDateIsToday ==
    current_dairy # 0 =>
        \A p \in DOMAIN products :
            /\ \A f \in StockInCreateForms :
                 (DecimalOk(f.qty) /\ DecimalOk(f.cost_price)) =>
                    LET r == stock_in_post(DB, current_dairy, p, f)
                    IN /\ r.status = "ok"
                       /\ ~CreateDateOk(f.date) =>
                             r.db.stock_in[NewId(stock_in)].date = Today
            /\ \A f \in SaleCreateForms :
                 (DecimalOk(f.qty) /\ DecimalOk(f.selling_price)) =>
                    LET r == sales_post(DB, current_dairy, p, f)
                    IN /\ r.status = "ok"
                       /\ ~CreateDateOk(f.date) =>
                             r.db.sales[NewId(sales)].date = Today

----------------------------------------------------------------------------
(* Properties of the ownership checks (SpecAccess) *)

\* C3: edit product, delete product, edit stock-in, edit sale and delete
\* sale on a record of another tenant are refused as forbidden, and a
\* forbidden request changes no product, stock-in or sale.
C3_ForeignRecordForbidden ==
    [][/\ last'.status = "forbidden" => UNCHANGED <<products, stock_in, sales>>
       /\ current_dairy # 0 =>
            /\ \A pid \in DOMAIN products :
                 products[pid].dairy_id # current_dairy =>
                    /\ \A f \in ProductEditForms :
                         edit_product_post(DB, current_dairy, pid, f)
                            = Refused(DB, "forbidden")
                    /\ delete_product_post(DB, current_dairy, pid)
                            = Refused(DB, "forbidden")
            /\ \A sid \in DOMAIN stock_in :
                 stock_in[sid].dairy_id # current_dairy =>
                    \A f \in AccessStockInEditForms :
                        edit_stock_in_post(DB, current_dairy, sid, f)
                            = Refused(DB, "forbidden")
            /\ \A sid \in DOMAIN sales :
                 sales[sid].dairy_id # current_dairy =>
                    /\ \A f \in AccessSaleEditForms :
                         edit_sale_post(DB, current_dairy, sid, f)
                            = Refused(DB, "forbidden")
                    /\ delete_sale_post(DB, current_dairy, sid)
                            = Refused(DB, "forbidden")]_vars

C3_Witness ==
    /\ last.status = "forbidden"
    /\ last.op \in {"edit_product", "delete_product", "edit_stock_in",
                    "edit_sale", "delete_sale"}
    /\ \E sid \in DOMAIN stock_in : stock_in[sid].dairy_id # current_dairy
    /\ \E sid \in DOMAIN sales : sales[sid].dairy_id # current_dairy

----------------------------------------------------------------------------
(* Properties of the reports (SpecReport) *)

\* C4: for a caller that is not admin-authenticated, every row the report
\* view or the PDF export returns belongs to the caller's acting tenant,
\* whatever tenant id the request passes.
C4_ReportRowsOfActingTenant ==
    (last.op \in {"reports", "reports_pdf"} /\ ~session.admin /\ current_dairy # None)
        => \A k \in 1..Len(view.rows) : view.rows[k].dairy = current_dairy

----------------------------------------------------------------------------
(* Properties of concurrent requests (SpecConc) *)

\* C6: when the requests that ran at the same time have all committed, the
\* stock of every product is still the sum of its stock-in quantities minus
\* the sum of its sale quantities, for every interleaving of their steps.
C6_NoLostBalanceUpdate ==
    InFlight = {}
        => \A p \in DOMAIN products : products[p].current_stock = Net(stock_in, sales, p)

----------------------------------------------------------------------------
(* Properties of the report rows (SpecRows) *)

\* The last request was a report view that was answered.
Reported == last.op = "reports" /\ last.status = "ok"

IsSaleRow(r) == r.sell_price # <<>>

\* The sum of vals[k] over the positions ks.
RECURSIVE RowSum(_, _)
RowSum(vals, ks) ==
    IF ks = {} THEN 0
    ELSE LET k == CHOOSE x \in ks : TRUE
         IN vals[k] + RowSum(vals, ks \ {k})

InRows(rows) == {k \in 1..Len(rows) : ~IsSaleRow(rows[k])}

OutRows(rows) == {k \in 1..Len(rows) : IsSaleRow(rows[k])}

\* C14: the totals of a report are the sums over its full row set: in_qty,
\* out_qty and profit over all rows, the cost value over the stock-in rows
\* (qty x event cost), the sell value over the sale rows (qty x sale
\* price); all are zero when no event matches.
C14_TotalsAreRowSums ==
    Reported =>
        LET rows == view.rows
            all == 1..Len(rows)
        IN /\ view.totals.in_qty = RowSum([k \in all |-> rows[k].in_qty], all)
           /\ view.totals.out_qty = RowSum([k \in all |-> rows[k].out_qty], all)
           /\ view.totals.profit = RowSum([k \in all |-> rows[k].profit], all)
           /\ view.totals.cost_val
                = RowSum([k \in InRows(rows) |-> rows[k].in_qty * rows[k].cost_price],
                         InRows(rows))
           /\ view.totals.sell_val
                = RowSum([k \in OutRows(rows) |-> rows[k].out_qty * rows[k].sell_price[1]],
                         OutRows(rows))
           /\ rows = <<>> =>
                 view.totals = [in_qty |-> 0, out_qty |-> 0, cost_val |-> 0,
                                sell_val |-> 0, profit |-> 0]

C14_Witness ==
    /\ Reported
    /\ Len(view.rows) = MaxRowEvents
    /\ InRows(view.rows) # {}
    /\ Cardinality(OutRows(view.rows)) > 1
    /\ view.totals.profit > 0
    /\ view.totals.profit < view.totals.sell_val
    /\ view.totals.cost_val # view.totals.sell_val

\* The filters of the view that are active: a tenant or a product that is
\* a number, the two dates when both are dates.
InReport(e) ==
    /\ view.did \in DOMAIN IntValue => e.dairy_id = IntValue[view.did]
    /\ view.pid \in DOMAIN IntValue => e.product_id = IntValue[view.pid]
    /\ (view.f1 \in DOMAIN DateValue /\ view.f2 \in DOMAIN DateValue) =>
          (DateValue[view.f1] <= e.date /\ e.date <= DateValue[view.f2])

EventKey(kind, e) == <<kind, e.dairy_id, e.date, e.product_id, e.qty>>

RowKey(r) ==
    <<IF IsSaleRow(r) THEN "out" ELSE "in", r.dairy, r.date, r.product,
      IF IsSaleRow(r) THEN r.out_qty ELSE r.in_qty>>

\* C15: the row set of a report has exactly one row per stock-in event and
\* one per sale event that passes all active filters (tenant, product,
\* from <= date <= to) and no other row; a stock-in row has out_qty 0 and
\* profit 0, a sale row has in_qty 0.
C15_OneRowPerMatchingEvent ==
    Reported =>
        LET rows == view.rows
            ins == {i \in DOMAIN stock_in : InReport(stock_in[i])}
            outs == {i \in DOMAIN sales : InReport(sales[i])}
            keys == {RowKey(rows[k]) : k \in 1..Len(rows)}
                      \cup {EventKey("in", stock_in[i]) : i \in DOMAIN stock_in}
                      \cup {EventKey("out", sales[i]) : i \in DOMAIN sales}
        IN /\ \A k \in InRows(rows) : rows[k].out_qty = 0 /\ rows[k].profit = 0
           /\ \A k \in OutRows(rows) : rows[k].in_qty = 0
           /\ Len(rows) = Cardinality(ins) + Cardinality(outs)
           /\ \A key \in keys :
                Cardinality({k \in 1..Len(rows) : RowKey(rows[k]) = key})
                  = Cardinality({i \in ins : EventKey("in", stock_in[i]) = key})
                      + Cardinality({i \in outs : EventKey("out", sales[i]) = key})

C15_Witness ==
    /\ Reported
    /\ view.f1 \in DOMAIN DateValue
    /\ view.pid \in DOMAIN IntValue
    /\ Len(view.rows) = 1
    /\ \E i \in DOMAIN stock_in : ~InReport(stock_in[i]) /\ stock_in[i].product_id = 1
    /\ \E i \in DOMAIN sales : ~InReport(sales[i]) /\ sales[i].product_id # 1

\* C17: the rows of a report are in descending order of date, and among the
\* rows of one date every stock-in row comes before every sale row.
C17_DateDescendingStockInFirst ==
    Reported =>
        \A a, b \in 1..Len(view.rows) :
            a < b =>
                /\ view.rows[a].date >= view.rows[b].date
                /\ (view.rows[a].date = view.rows[b].date /\ IsSaleRow(view.rows[a]))
                      => IsSaleRow(view.rows[b])

C17_Witness ==
    /\ Reported
    /\ \E a, b \in 1..Len(view.rows) :
          /\ a < b
          /\ IsSaleRow(view.rows[a])
          /\ ~IsSaleRow(view.rows[b])
          /\ view.rows[a].date > view.rows[b].date
    /\ \E a, b \in 1..Len(view.rows) :
          /\ a < b
          /\ ~IsSaleRow(view.rows[a])
          /\ IsSaleRow(view.rows[b])
          /\ view.rows[a].date = view.rows[b].date

----------------------------------------------------------------------------
(* Properties of the reported profit (SpecProfit) *)

\* The profit of every sale row of rows is its quantity times the margin of
\* its price over the cost_price its product has in table prods.
ProfitAtCost(rows, prods) ==
    \A k \in OutRows(rows) :
        rows[k].profit
            = rows[k].out_qty * (rows[k].sell_price[1] - prods[rows[k].product].cost_price)

\* C16: the profit of a sale row is qty x (sale price - the cost_price the
\* product has when the report is made): 30 sold at 55 with cost 40 give
\* 450, and after a later stock-in or product edit has changed the
\* product's cost_price the report gives the recorded sale the profit at the
\* new cost.
C16_ProfitAtCurrentCost ==
    /\ SaleRow([products |-> (1 :> [cost_price |-> 40])],
               [dairy_id |-> 1, product_id |-> 1, qty |-> 30, selling_price |-> 55,
                date |-> Today]).profit = 450
    /\ Reported =>
          /\ ProfitAtCost(view.rows, products)
          /\ \A p \in DOMAIN products :
                /\ \A f \in AccessStockInCreateForms :
                      LET r == stock_in_post(DB, current_dairy, p, f)
                          later == reports_rows(r.db, ReportForm("", "", "", "", NoPage),
                                                current_dairy)
                      IN /\ r.db.products[p].cost_price = Decimal(f.cost_price)
                         /\ ProfitAtCost(later.rows, r.db.products)
                /\ \A f \in ProductEditForms :
                      LET r == edit_product_post(DB, current_dairy, p, f)
                          later == reports_rows(r.db, ReportForm("", "", "", "", NoPage),
                                                current_dairy)
                      IN ProfitAtCost(later.rows, r.db.products)

\* A report after a stock-in has raised the cost of a product sold before at
\* the product's first cost: the sale is reported at the new cost.
C16_Witness ==
    /\ Reported
    /\ \E k \in OutRows(view.rows) :
          /\ products[view.rows[k].product].cost_price = 2
          /\ view.rows[k].profit = view.rows[k].out_qty
    /\ \E p \in DOMAIN products : products[p].current_stock = 0 /\ products[p].cost_price = 2

----------------------------------------------------------------------------
(* Properties of the pages and of the export (SpecPage) *)

\* The slices of pages p..tp one after the other.
RECURSIVE PagesFrom(_, _, _)
PagesFrom(rows, p, tp) ==
    IF p > tp THEN <<>> ELSE paginated_rows(rows, p) \o PagesFrom(rows, p + 1, tp)

Elements(q) == {q[k] : k \in 1..Len(q)}

\* C18: pagination partitions the rows: total_pages is max(1, ceil(n/10)),
\* the slices of the pages 1..total_pages are pairwise disjoint, none has
\* more than 10 rows, and one after the other they are the full sorted list.
C18_PagesPartitionRows ==
    Reported =>
        LET rows == view.rows
            n == Len(rows)
            tp == view.total_pages
        IN /\ tp >= 1
           /\ (tp - 1) * 10 < n \/ tp = 1
           /\ n <= tp * 10
           /\ \A p \in 1..tp : Len(paginated_rows(rows, p)) <= 10
           /\ \A p, q \in 1..tp :
                 p # q => Elements(paginated_rows(rows, p))
                            \cap Elements(paginated_rows(rows, q)) = {}
           /\ PagesFrom(rows, 1, tp) = rows
           /\ view.page \in 1..tp =>
                 view.paginated_rows
                    = SubSeq(rows, (view.page - 1) * 10 + 1,
                             IF view.page * 10 < n THEN view.page * 10 ELSE n)

C18_Witness ==
    /\ Reported
    /\ Len(view.rows) = 21
    /\ view.total_pages = 3
    /\ view.page = 3
    /\ Len(view.paginated_rows) = 1
    /\ view.paginated_rows[1] = view.rows[21]

\* C19: a page outside 1..total_pages, above it, zero or negative, gets an
\* empty slice of rows and no error, whatever the number of rows.
C19_OutOfRangePageIsEmpty ==
    (Reported /\ view.page \notin 1..view.total_pages) => view.paginated_rows = <<>>

\* C20: a report view with at least one row overwrites the export with its
\* full row set, whatever page it asks for; a view with no row has
\* total_pages 1 and an empty page and leaves the export as it is; so the
\* export holds the full row set of the last view that had rows.
C20_ExportOfLastViewWithRows ==
    [][(last'.op = "reports" /\ last'.status = "ok") =>
          /\ view'.rows # <<>> =>
                /\ excel' = [exists |-> TRUE, rows |-> view'.rows]
                /\ view'.out
          /\ view'.rows = <<>> =>
                /\ excel' = excel
                /\ view'.total_pages = 1
                /\ view'.paginated_rows = <<>>
                /\ ~view'.out]_vars

C20_Witness ==
    /\ Reported
    /\ view.rows = <<>>
    /\ excel.exists
    /\ Len(excel.rows) > per_page


----------------------------------------------------------------------------
(* The admin's pages and the tenant's read-only pages *)

\* @login_required: flask-login redirects a request without an authenticated
\* user to the login view; nothing is shown.
Unauthorized(op) ==
    /\ view' = NoView
    /\ last' = Reply(op, "login", 0, 0)
    /\ UNCHANGED <<session, dairies, products, stock_in, sales, excel, req>>

\* Mutation of admin_dashboard: the page is not behind @login_required.
admin_dashboard_Open ==
    /\ view' = [rows |-> <<>>, dairies |-> dairies]
    /\ last' = Reply("admin_dashboard", "ok", 0, 0)
    /\ UNCHANGED <<session, dairies, products, stock_in, sales, excel, req>>

\* GET /admin: the list of all dairies.
admin_dashboard ==
    IF ~session.admin THEN Unauthorized("admin_dashboard")
    ELSE /\ view' = [rows |-> <<>>, dairies |-> dairies]
         /\ last' = Reply("admin_dashboard", "ok", 0, 0)
         /\ UNCHANGED <<session, dairies, products, stock_in, sales, excel, req>>

\* The id the next row of table dairies takes.
NewDairyId == IF dairies = {} THEN 1 ELSE Max(dairies) + 1

\* POST /admin/dairies/add.  taken: the form's username is the one of a dairy
\* that exists, and the unique constraint fails the commit.
add_dairy(taken) ==
    /\ NewDairyId \in DairyIds
    /\ IF ~session.admin THEN Unauthorized("add_dairy")
       ELSE IF taken /\ dairies # {}
       THEN /\ last' = Reply("add_dairy", "error", 0, 0)
            /\ UNCHANGED <<session, dairies, products, stock_in, sales, view, excel, req>>
       ELSE /\ dairies' = dairies \cup {NewDairyId}
            /\ last' = Reply("add_dairy", "ok", NewDairyId, 0)
            /\ UNCHANGED <<session, products, stock_in, sales, view, excel, req>>

\* The products of tenant d.
ProductsOf(db, d) == {p \in DOMAIN db.products : db.products[p].dairy_id = d}

\* GET /products
products_page ==
    /\ view' = IF current_dairy = None THEN NoView
               ELSE [rows |-> <<>>, products |-> ProductsOf(DB, current_dairy)]
    /\ last' = Reply("products", IF current_dairy = None THEN "login" ELSE "ok", 0, 0)
    /\ UNCHANGED <<session, dairies, products, stock_in, sales, excel, req>>

\* The dates of the dashboard: each defaults to today, and both are today
\* when either does not parse.
dashboard_dates(f) ==
    LET ok == /\ f.from = "" \/ f.from \in DOMAIN DateValue
              /\ f.to = "" \/ f.to \in DOMAIN DateValue
    IN [f1d |-> IF ok /\ f.from # "" THEN DateValue[f.from] ELSE Today,
        f2d |-> IF ok /\ f.to # "" THEN DateValue[f.to] ELSE Today]

\* StockIn.dairy_id == dairy_id, StockIn.date.between(f1d, f2d), and the same
\* for Sale.
InRange(t, d, dt) ==
    {i \in DOMAIN t : t[i].dairy_id = d /\ dt.f1d <= t[i].date /\ t[i].date <= dt.f2d}

\* The figures of the dashboard of tenant d; a sale in the range whose product
\* row is gone fails the request at s.product.cost_price.
dashboard_view(db, d, f) ==
    LET dt == dashboard_dates(f)
        ps == ProductsOf(db, d)
        sis == InRange(db.stock_in, d, dt)
        ss == InRange(db.sales, d, dt)
        sq == IdSeq(ss)
        pq == IdSeq(ps)
    IN IF \E s \in ss : db.sales[s].product_id \notin DOMAIN db.products
       THEN [status |-> "error", view |-> NoView]
       ELSE
         LET revenue == SeqSum([k \in 1..Len(sq) |->
                            db.sales[sq[k]].qty * db.sales[sq[k]].selling_price])
             cogs == SeqSum([k \in 1..Len(sq) |->
                            db.sales[sq[k]].qty
                              * db.products[db.sales[sq[k]].product_id].cost_price])
         IN [status |-> "ok",
             view |-> [rows |-> <<>>,
                       products |-> ps,
                       total_stock_value |-> SeqSum([k \in 1..Len(pq) |->
                            db.products[pq[k]].current_stock
                              * db.products[pq[k]].cost_price]),
                       total_revenue |-> revenue,
                       total_cogs |-> cogs,
                       profit |-> revenue - cogs,
                       product_stock_summary |->
                          [p \in ps |->
                             [stock_in |-> SumQty(db.stock_in,
                                  {i \in sis : db.stock_in[i].product_id = p}),
                              stock_out |-> SumQty(db.sales,
                                  {i \in ss : db.sales[i].product_id = p}),
                              closing_stock |-> db.products[p].current_stock]],
                       f1 |-> dt.f1d, f2 |-> dt.f2d]]

\* GET /dashboard
dashboard(f) ==
    /\ \E r \in {IF current_dairy = None THEN [status |-> "login", view |-> NoView]
                 ELSE dashboard_view(DB, current_dairy, f)} :
          /\ view' = r.view
          /\ last' = Reply("dashboard", r.status, 0, 0)
    /\ UNCHANGED <<session, dairies, products, stock_in, sales, excel, req>>


----------------------------------------------------------------------------
(* SpecSession: one browser session.  Dairy 1 has a product, a receipt and *)
(* a sale; the session logs in as the admin, as a dairy or with            *)
(* credentials that match nothing, logs out, and requests the admin's      *)
(* pages, the tenant's pages, a new product and the reports in any order.  *)

DashboardForms == {[from |-> BadDate, to |-> "2026-11-01"]}

SessionReportForms == {ReportForm("", "", "", "", NoPage)}

SessionProductForms == {ProductForm("1", "2")}

InitSession ==
    /\ session = Anonymous
    /\ dairies = {1}
    /\ products = (1 :> [NewProduct(1, 1, 2) EXCEPT !.current_stock = 1])
    /\ stock_in = (1 :> [dairy_id |-> 1, product_id |-> 1, qty |-> 2,
                         cost_price |-> 1, date |-> Today])
    /\ sales = (1 :> [dairy_id |-> 1, product_id |-> 1, qty |-> 1,
                      selling_price |-> 2, date |-> Today])
    /\ last = Reply("none", "ok", 0, 0)
    /\ view = NoView
    /\ excel = NoFile
    /\ req = NoRequests

AdminDashboard == admin_dashboard

AddDairy == \E taken \in BOOLEAN : add_dairy(taken)

Dashboard == \E f \in DashboardForms : dashboard(f)

ProductsPage == products_page

AddProduct == \E f \in SessionProductForms : add_product(f)

SessionReportView == \E f \in SessionReportForms : reports(f)

SessionReportPdf == \E f \in SessionReportForms : reports_pdf(f)

NextSession ==
    \/ AnyLogin
    \/ Logout
    \/ Impersonate
    \/ AdminDashboard
    \/ AddDairy
    \/ Dashboard
    \/ ProductsPage
    \/ AddProduct
    \/ ProductEdit
    \/ SaleDelete
    \/ SessionReportView
    \/ SessionReportPdf

SpecSession == InitSession /\ [][NextSession]_vars


----------------------------------------------------------------------------
(* Session claims, under SpecSession *)

\* A request that is neither a login nor a logout.
Operation(op) == op \notin {"login", "logout", "none"}

\* The request was redirected to login and no table changed.
Denied == last'.status = "login" /\ UNCHANGED <<dairies, products, stock_in, sales>>

\* C21: logout leaves the session Anonymous, with neither an admin identity
\* nor an acting tenant whatever it held before, and every tenant-scoped or
\* admin operation of an Anonymous session is redirected to login and changes
\* no table, until a login.
C21_LogoutLeadsToAnonymous ==
    [][/\ last'.op = "logout" => session' = Anonymous
       /\ (session = Anonymous /\ Operation(last'.op)) => Denied]_vars


\* C22: impersonation of tenant T by the admin makes T the acting tenant,
\* whichever tenant was acting before, and keeps the admin authenticated, so
\* the admin dashboard still answers; the acting tenant then stays T until
\* the next impersonation, login or logout.
C22_ImpersonationKeepsAdmin ==
    [][/\ \A did \in DairyIds :
            (session.admin /\ did \in dairies /\ admin_view_dairy(did))
                => /\ session'.admin
                   /\ session'.dairy_id = did
                   /\ last'.status = "ok"
       /\ (session.admin /\ last'.op = "admin_dashboard")
            => last'.status = "ok" /\ view'.dairies = dairies
       /\ session'.dairy_id # session.dairy_id
            => last'.op \in {"admin_view_dairy", "login", "logout"}]_vars

\* The admin saw both dairies on the dashboard and now acts as dairy 2.
C22_Witness ==
    /\ last.op = "admin_view_dairy"
    /\ last.status = "ok"
    /\ session = [admin |-> TRUE, dairy_id |-> 2]
    /\ "dairies" \in DOMAIN view
    /\ view.dairies = {1, 2}


AdminOperations == {"admin_dashboard", "add_dairy", "admin_view_dairy"}

\* C23: a session becomes admin-authenticated only by a login that matches
\* the admin's credentials and stops being so at logout; an admin operation
\* of a session that is not admin-authenticated is redirected to login,
\* shows no list of dairies and changes neither a table nor the session;
\* table dairies grows only by add-dairy of an authenticated admin; and the
\* acting tenant becomes T only by a login that matches T's credentials or
\* by impersonation of T by an authenticated admin.
C23_AdminOperationsNeedAdmin ==
    [][/\ (session'.admin /\ ~session.admin)
            => \E c \in Credentials : c.who = "admin" /\ login(c)
       /\ last'.op = "logout" => ~session'.admin
       /\ (~session.admin /\ last'.op \in AdminOperations)
            => /\ Denied
               /\ session' = session
               /\ last'.op = "admin_dashboard" => view' = NoView
       /\ dairies' # dairies => session.admin /\ last'.op = "add_dairy"
       /\ \A t \in DairyIds :
            (session'.dairy_id = t /\ session.dairy_id # t)
                => \/ login([who |-> "dairy", id |-> t])
                   \/ session.admin /\ admin_view_dairy(t)]_vars

\* Tenant 1, not admin-authenticated, asked to act as a dairy the admin had
\* added, and was sent to login.
C23_Witness ==
    /\ last.op = "admin_view_dairy"
    /\ last.status = "login"
    /\ session = [admin |-> FALSE, dairy_id |-> 1]
    /\ dairies = {1, 2}


TenantOperations ==
    {"dashboard", "products", "add_product", "edit_product", "delete_product",
     "stock_in_page", "edit_stock_in", "sales_page", "edit_sale", "delete_sale",
     "reports", "reports_pdf"}

\* C24: a tenant-scoped request of a session that has no acting tenant (and
\* is not the admin's) is redirected to login: no table and no export file
\* changes, and the response shows no row.
C24_NoActingTenantRedirects ==
    [][(~session.admin /\ current_dairy = None /\ last'.op \in TenantOperations)
          => /\ Denied
             /\ excel' = excel
             /\ view' = NoView \/ view' = view]_vars


----------------------------------------------------------------------------
(* Referential integrity, under SpecAccess *)

\* C25: in every reachable state, every stock-in event and every sale event
\* refers to a row of table products, also after a product that has events
\* was deleted.
C25_EventsReferToProducts ==
    /\ \A i \in DOMAIN stock_in : stock_in[i].product_id \in DOMAIN products
    /\ \A i \in DOMAIN sales : sales[i].product_id \in DOMAIN products


----------------------------------------------------------------------------
(* SpecPdf: the report view and the PDF export are asked with the same    *)
(* explicit filters, a from-date, a to-date, a product id and a tenant id  *)
(* that all parse, on a ledger of at most MaxRowEvents events.             *)

\* From and to: the day before alone, the day before and today.
ExplicitDates == {<<"2026-11-01", "2026-11-01">>, <<"2026-11-01", "2026-11-02">>}

ExplicitForms ==
    {ReportForm(dt[1], dt[2], p, d, NoPage) :
        dt \in ExplicitDates, p \in {"1", "2"}, d \in {"1", "2"}}

PdfView == \E f \in ExplicitForms : reports(f)

PdfExport == \E f \in ExplicitForms : reports_pdf(f)

NextPdf ==
    \/ PdfView
    \/ PdfExport

SpecPdf == InitRows /\ [][NextPdf]_vars

\* The two sequences hold the same rows the same number of times.
SameRows(a, b) ==
    /\ Len(a) = Len(b)
    /\ \A r \in Elements(a) \cup Elements(b) :
          Cardinality({k \in DOMAIN a : a[k] = r})
            = Cardinality({k \in DOMAIN b : b[k] = r})

\* C26: for the same explicit and valid from-date, to-date, product id and
\* tenant id, on every ledger, what the report view answers is what the PDF
\* export computes and what the PDF export answers is what the report view
\* computes: the same multiset of rows and the same five totals.
C26_ViewAndPdfAgree ==
    [][\A f \in ExplicitForms :
          /\ (/\ last'.op = "reports"
              /\ <<view'.f1, view'.f2, view'.pid, view'.did>>
                    = <<f.from, f.to, f.product, f.dairy>>
              /\ reports(f))
                => /\ last'.status = "ok"
                   /\ SameRows(view'.rows, reports_pdf_rows(DB, f).rows)
                   /\ view'.totals = reports_pdf_totals(DB, f)
          /\ (last'.op = "reports_pdf" /\ reports_pdf(f))
                => /\ last'.status = "ok"
                   /\ SameRows(view'.rows, reports_rows(DB, f, current_dairy).rows)
                   /\ view'.totals = reports_totals(DB, f, current_dairy)]_vars

\* The export holds a receipt and a sale, and the filters left an event out.
C26_Witness ==
    /\ last.op = "reports_pdf"
    /\ last.status = "ok"
    /\ InRows(view.rows) # {}
    /\ OutRows(view.rows) # {}
    /\ Len(view.rows) < Cardinality(DOMAIN stock_in) + Cardinality(DOMAIN sales)
    /\ view.totals.profit > 0


----------------------------------------------------------------------------
(* The frame of an event edit or delete, under Spec *)

\* Every row of t other than id is in t2 as it was, and t2 has no new row.
OthersKept(t, t2, id) ==
    /\ DOMAIN t2 \subseteq DOMAIN t
    /\ \A i \in DOMAIN t \ {id} : i \in DOMAIN t2 /\ t2[i] = t[i]

\* Of table products nothing changed but the current_stock of product p.
OnlyStockOf(p) ==
    /\ DOMAIN products' = DOMAIN products
    /\ \A q \in DOMAIN products :
          /\ products'[q].cost_price = products[q].cost_price
          /\ products'[q].sell_price = products[q].sell_price
          /\ products'[q].dairy_id = products[q].dairy_id
          /\ q # p => products'[q] = products[q]

\* C27: an edit-stock-in, edit-sale or delete-sale on event e that commits
\* changes only e's fields other than its product id and tenant id (delete
\* removes e alone) and the current_stock of e's product: every other event,
\* every other product and every product's cost_price and sell_price are as
\* before; one that does not commit changes no table.
C27_FrameOfEditAndDelete ==
    [][/\ Committing("edit_stock_in") =>
            LET e == stock_in[last'.id]
            IN /\ sales' = sales
               /\ DOMAIN stock_in' = DOMAIN stock_in
               /\ OthersKept(stock_in, stock_in', last'.id)
               /\ stock_in'[last'.id].product_id = e.product_id
               /\ stock_in'[last'.id].dairy_id = e.dairy_id
               /\ OnlyStockOf(e.product_id)
       /\ Committing("edit_sale") =>
            LET e == sales[last'.id]
            IN /\ stock_in' = stock_in
               /\ DOMAIN sales' = DOMAIN sales
               /\ OthersKept(sales, sales', last'.id)
               /\ sales'[last'.id].product_id = e.product_id
               /\ sales'[last'.id].dairy_id = e.dairy_id
               /\ OnlyStockOf(e.product_id)
       /\ Committing("delete_sale") =>
            LET e == sales[last'.id]
            IN /\ stock_in' = stock_in
               /\ DOMAIN sales' = DOMAIN sales \ {last'.id}
               /\ OthersKept(sales, sales', last'.id)
               /\ OnlyStockOf(e.product_id)
       /\ (last'.op \in {"edit_stock_in", "edit_sale", "delete_sale"}
             /\ last'.status # "ok")
            => UNCHANGED <<products, stock_in, sales>>
       /\ last'.op \in {"edit_stock_in", "edit_sale", "delete_sale"}
            => UNCHANGED <<session, dairies>>]_vars

\* A sale was edited to a price and a quantity other than it had, next to a
\* receipt, and its product keeps the sell_price the sale's creation set.
C27_Witness ==
    /\ last.op = "edit_sale"
    /\ last.status = "ok"
    /\ stock_in # NoRow
    /\ sales[last.id].qty # last.old
    /\ sales[last.id].selling_price = 2
    /\ products[sales[last.id].product_id].sell_price = 3

====
